---- MODULE Spec2Model ----
(***************************************************************************)
(* Model of src/src/liquid_docs.rs: the tag scanner                        *)
(* (LiquidDocs::extract_doc_blocks) and the content parser                 *)
(* (LiquidDocs::parse_doc_content) with the scan primitives they share.    *)
(*                                                                         *)
(* A text (&str) is a sequence of bytes.  An ASCII byte is the one-        *)
(* character string of its character; the two-byte character U+00E9 is the *)
(* lead byte "C3" followed by the continuation byte "A9".  The cursor      *)
(* (Peekable<CharIndices>) is the byte offset of the next character, or    *)
(* the length of the text when the iterator is exhausted.  Offsets are     *)
(* 0-based as in the source; c[i + 1] is the byte at offset i.             *)
(* Option values are sequences: None is << >> and Some(x) is << x >>.      *)
(***************************************************************************)
EXTENDS Integers, Sequences, FiniteSets, TLC

VARIABLES content, pc, blocks, parsed, position, scan

vars == <<content, pc, blocks, parsed, position, scan>>

None == << >>

Some(x) == << x >>

LeadByte == "C3"

ContByte == "A9"

\* char::is_whitespace, for the characters of the modelled alphabet
IsWhitespace(ch) == ch \in {" ", "\n", "\t"}

Digits == {"0", "1", "2", "3", "4", "5", "6", "7", "8", "9"}

LowerLetters ==
  {"a", "b", "c", "d", "e", "f", "g", "h", "i", "j", "k", "l", "m",
   "n", "o", "p", "q", "r", "s", "t", "u", "v", "w", "x", "y", "z"}

UpperLetters ==
  {"A", "B", "C", "D", "E", "F", "G", "H", "I", "J", "K", "L", "M",
   "N", "O", "P", "Q", "R", "S", "T", "U", "V", "W", "X", "Y", "Z"}

\* u8::is_ascii_alphanumeric
IsAsciiAlphanumeric(b) == b \in Digits \cup LowerLetters \cup UpperLetters

\* u8::to_ascii_lowercase, as used by eq_ignore_ascii_case
ToAsciiLowercase(b) ==
  CASE b = "A" -> "a" [] b = "B" -> "b" [] b = "C" -> "c" [] b = "D" -> "d"
    [] b = "E" -> "e" [] b = "F" -> "f" [] b = "G" -> "g" [] b = "H" -> "h"
    [] b = "I" -> "i" [] b = "J" -> "j" [] b = "K" -> "k" [] b = "L" -> "l"
    [] b = "M" -> "m" [] b = "N" -> "n" [] b = "O" -> "o" [] b = "P" -> "p"
    [] b = "Q" -> "q" [] b = "R" -> "r" [] b = "S" -> "s" [] b = "T" -> "t"
    [] b = "U" -> "u" [] b = "V" -> "v" [] b = "W" -> "w" [] b = "X" -> "x"
    [] b = "Y" -> "y" [] b = "Z" -> "z" [] OTHER -> b

EqIgnoreAsciiCase(a, b) ==
  /\ Len(a) = Len(b)
  /\ \A i \in 1..Len(a) : ToAsciiLowercase(a[i]) = ToAsciiLowercase(b[i])

\* str::is_char_boundary
IsCharBoundary(c, i) ==
  \/ i = 0
  \/ i = Len(c)
  \/ (i < Len(c) /\ c[i + 1] # ContByte)

\* &content[a..b] panics unless a <= b <= len and both are char boundaries
SliceOk(c, a, b) ==
  /\ a <= b
  /\ b <= Len(c)
  /\ IsCharBoundary(c, a)
  /\ IsCharBoundary(c, b)

Slice(c, a, b) == SubSeq(c, a + 1, b)

\* str::starts_with
StartsWith(c, p, needle) ==
  /\ p + Len(needle) <= Len(c)
  /\ SubSeq(c, p + 1, p + Len(needle)) = needle

\* the byte length of the character the cursor is at
CharLen(c, p) == IF c[p + 1] = LeadByte THEN 2 ELSE 1

\* chars.next(): the cursor after the call (unchanged when exhausted)
Advance(c, p) == IF p >= Len(c) THEN Len(c) ELSE p + CharLen(c, p)

\* chars.peek().map(|(_, ch)| *ch): the lead byte stands for the character
PeekChar(c, p) == IF p >= Len(c) THEN None ELSE Some(c[p + 1])

RECURSIVE consume_whitespace(_, _)
consume_whitespace(c, p) ==
  IF p < Len(c) /\ IsWhitespace(c[p + 1])
  THEN consume_whitespace(c, Advance(c, p))
  ELSE p

RECURSIVE consume_whitespace_until_newline(_, _)
consume_whitespace_until_newline(c, p) ==
  IF p < Len(c) /\ IsWhitespace(c[p + 1]) /\ c[p + 1] # "\n"
  THEN consume_whitespace_until_newline(c, Advance(c, p))
  ELSE p

skip_dash(c, p) == IF PeekChar(c, p) = Some("-") THEN Advance(c, p) ELSE p

\* peek_matches slices content[start_pos..end_pos] whenever end_pos <= len:
\* the slice panics when end_pos is inside a multi-byte character
peek_matches_panics(c, p, needle) ==
  /\ p < Len(c)
  /\ p + Len(needle) <= Len(c)
  /\ ~SliceOk(c, p, p + Len(needle))

peek_matches(c, p, needle) ==
  /\ p < Len(c)
  /\ LET end_pos == p + Len(needle) IN
       /\ end_pos <= Len(c)
       /\ EqIgnoreAsciiCase(Slice(c, p, end_pos), needle)
       /\ (end_pos < Len(c) => ~IsAsciiAlphanumeric(c[end_pos + 1]))

RECURSIVE consume_chars(_, _, _)
consume_chars(c, p, count) ==
  IF count <= 0 \/ p >= Len(c) THEN p
  ELSE consume_chars(c, Advance(c, p), count - 1)

\* skip_to_tag_close returning the offset of the "}" instead of the offset
\* after it
skip_to_tag_close_at_brace(c, p) ==
  LET p1 == skip_dash(c, consume_whitespace(c, p)) IN
    IF PeekChar(c, p1) = Some("%")
    THEN LET p2 == Advance(c, p1) IN
           IF PeekChar(c, p2) = Some("}")
           THEN [pos |-> Advance(c, p2), ret |-> Some(p2)]
           ELSE [pos |-> p2, ret |-> None]
    ELSE [pos |-> p1, ret |-> None]

\* skip_to_tag_close: pos is the cursor after the call, ret the Option returned
skip_to_tag_close(c, p) ==
  LET p1 == skip_dash(c, consume_whitespace(c, p)) IN
    IF PeekChar(c, p1) = Some("%")
    THEN LET p2 == Advance(c, p1) IN
           IF PeekChar(c, p2) = Some("}")
           THEN [pos |-> Advance(c, p2), ret |-> Some(Advance(c, p2))]
           ELSE [pos |-> p2, ret |-> None]
    ELSE [pos |-> p1, ret |-> None]

\* consume_until for a non-empty target
RECURSIVE consume_until(_, _, _)
consume_until(c, p, target) ==
  IF p >= Len(c) THEN [pos |-> p, ret |-> None, panic |-> FALSE]
  ELSE IF c[p + 1] = target[1] /\ p + Len(target) <= Len(c)
       THEN IF ~SliceOk(c, p, p + Len(target))
            THEN [pos |-> p, ret |-> None, panic |-> TRUE]
            ELSE IF Slice(c, p, p + Len(target)) = target
                 THEN [pos |-> p, ret |-> Some(p), panic |-> FALSE]
                 ELSE consume_until(c, Advance(c, p), target)
       ELSE consume_until(c, Advance(c, p), target)

RECURSIVE consume_until_either(_, _, _)
consume_until_either(c, p, needles) ==
  IF p >= Len(c) THEN [pos |-> p, ret |-> None]
  ELSE IF \E n \in needles : StartsWith(c, p, n)
       THEN [pos |-> p, ret |-> Some(p)]
       ELSE consume_until_either(c, Advance(c, p), needles)

RECURSIVE skip_to_tag(_, _, _, _)
skip_to_tag(c, p, tag, return_end) ==
  LET found == consume_until(c, p, <<"{", "%">>) IN
    IF found.panic THEN [pos |-> found.pos, ret |-> None, panic |-> TRUE]
    ELSE IF found.ret = None THEN [pos |-> found.pos, ret |-> None, panic |-> FALSE]
    ELSE LET tag_start == found.ret[1]
             current_pos == found.pos
             p1 == consume_chars(c, found.pos, tag_start - current_pos + 2)
             p2 == consume_whitespace(c, skip_dash(c, p1))
         IN IF peek_matches_panics(c, p2, tag)
            THEN [pos |-> p2, ret |-> None, panic |-> TRUE]
            ELSE IF peek_matches(c, p2, tag)
                 THEN IF return_end
                      THEN LET r == skip_to_tag_close(c, consume_chars(c, p2, Len(tag)))
                           IN [pos |-> r.pos, ret |-> r.ret, panic |-> FALSE]
                      ELSE [pos |-> p2, ret |-> Some(tag_start), panic |-> FALSE]
                 ELSE skip_to_tag(c, p2, tag, return_end)

\* the loop of get_line_and_column over bytes.iter().enumerate().take(n)
RECURSIVE line_scan(_, _, _, _, _)
line_scan(c, i, n, line, last_newline_pos) ==
  IF i >= n THEN <<line, last_newline_pos>>
  ELSE IF c[i + 1] = "\n"
       THEN line_scan(c, i + 1, n, line + 1, i + 1)
       ELSE line_scan(c, i + 1, n, line, last_newline_pos)

\* get_line_and_column with the column counted from the newline itself
get_line_and_column_from_newline(c, byte_offset) ==
  LET n == IF byte_offset < Len(c) THEN byte_offset ELSE Len(c)
      r == line_scan(c, 0, n, 1, 0)
  IN <<r[1], IF r[2] = 0 THEN byte_offset + 1 ELSE byte_offset - (r[2] - 1) + 1>>

get_line_and_column(c, byte_offset) ==
  LET n == IF byte_offset < Len(c) THEN byte_offset ELSE Len(c)
      r == line_scan(c, 0, n, 1, 0)
  IN <<r[1], byte_offset - r[2] + 1>>

Bytes_doc == <<"d", "o", "c">>

Bytes_enddoc == <<"e", "n", "d", "d", "o", "c">>

Bytes_raw == <<"r", "a", "w">>

Bytes_endraw == <<"e", "n", "d", "r", "a", "w">>

Bytes_comment == <<"c", "o", "m", "m", "e", "n", "t">>

Bytes_endcomment == <<"e", "n", "d", "c", "o", "m", "m", "e", "n", "t">>

\* content.matches("enddoc").count()
possible_doc_blocks(c) ==
  Cardinality({i \in 0..Len(c) : StartsWith(c, i, Bytes_enddoc)})

\* an iteration that takes no character: while let Some(..) = chars.peek()
extract_iteration_peeking(c, p, ranges, found_blocks, possible) ==
  [kind |-> "Continue", ranges |-> ranges, pos |-> p, found |-> found_blocks]

\* One iteration of the while loop of extract_doc_blocks (lines 93-126), the
\* cursor p being before the character that chars.next() takes.  ranges
\* holds, for every pushed slice &content[doc_content_start..doc_content_end],
\* the pair of its offsets.  kind is "Continue" when the loop goes on,
\* "Return" for the break of line 124, "None" for a return through the ?
\* operator and "Panic" for a slice off a char boundary.
extract_iteration(c, p, ranges, found_blocks, possible) ==
  LET ch == c[p + 1]
      p1 == Advance(c, p)
      p2 == consume_whitespace(c, skip_dash(c, Advance(c, p1)))
  IN
  IF ch = "{" /\ PeekChar(c, p1) = Some("%")
  THEN
    IF peek_matches_panics(c, p2, <<"#">>)
    THEN [kind |-> "Panic", ranges |-> ranges, pos |-> p2, found |-> found_blocks]
    ELSE IF peek_matches(c, p2, <<"#">>)
    THEN [kind |-> "Continue", ranges |-> ranges,
          pos |-> skip_to_tag_close(c, p2).pos, found |-> found_blocks]
    ELSE IF peek_matches_panics(c, p2, Bytes_raw)
    THEN [kind |-> "Panic", ranges |-> ranges, pos |-> p2, found |-> found_blocks]
    ELSE IF peek_matches(c, p2, Bytes_raw)
    THEN LET r == skip_to_tag(c, p2, Bytes_endraw, TRUE) IN
           [kind |-> IF r.panic THEN "Panic" ELSE "Continue",
            ranges |-> ranges, pos |-> r.pos, found |-> found_blocks]
    ELSE IF peek_matches_panics(c, p2, Bytes_comment)
    THEN [kind |-> "Panic", ranges |-> ranges, pos |-> p2, found |-> found_blocks]
    ELSE IF peek_matches(c, p2, Bytes_comment)
    THEN LET r == skip_to_tag(c, p2, Bytes_endcomment, TRUE) IN
           [kind |-> IF r.panic THEN "Panic" ELSE "Continue",
            ranges |-> ranges, pos |-> r.pos, found |-> found_blocks]
    ELSE IF peek_matches_panics(c, p2, Bytes_doc)
    THEN [kind |-> "Panic", ranges |-> ranges, pos |-> p2, found |-> found_blocks]
    ELSE IF peek_matches(c, p2, Bytes_doc)
    THEN
      LET close == skip_to_tag_close(c, consume_chars(c, p2, 3)) IN
      IF close.ret = None
      THEN [kind |-> "None", ranges |-> ranges, pos |-> close.pos, found |-> found_blocks]
      ELSE
        LET doc_content_start == close.ret[1]
            r == skip_to_tag(c, close.pos, Bytes_enddoc, FALSE)
        IN
        IF r.panic
        THEN [kind |-> "Panic", ranges |-> ranges, pos |-> r.pos, found |-> found_blocks]
        ELSE IF r.ret = None
        THEN [kind |-> "None", ranges |-> ranges, pos |-> r.pos, found |-> found_blocks]
        ELSE IF ~SliceOk(c, doc_content_start, r.ret[1])
        THEN [kind |-> "Panic", ranges |-> ranges, pos |-> r.pos, found |-> found_blocks]
        ELSE [kind |-> IF found_blocks + 1 = possible THEN "Return" ELSE "Continue",
              ranges |-> Append(ranges, <<doc_content_start, r.ret[1]>>),
              pos |-> r.pos, found |-> found_blocks + 1]
    ELSE [kind |-> IF found_blocks = possible THEN "Return" ELSE "Continue",
          ranges |-> ranges, pos |-> p2, found |-> found_blocks]
  ELSE [kind |-> IF found_blocks = possible THEN "Return" ELSE "Continue",
        ranges |-> ranges, pos |-> p1, found |-> found_blocks]

RECURSIVE extract_loop(_, _, _, _, _)

\* the while loop goes on from the state it an iteration has left, unless the
\* iteration has left the loop
extract_continue(c, it, possible) ==
  IF it.kind = "Continue"
  THEN extract_loop(c, it.pos, it.ranges, it.found, possible)
  ELSE [kind |-> it.kind, ranges |-> it.ranges, pos |-> it.pos]

\* while let Some((_, ch)) = parser.chars.next(): the value the loop is left
\* with, kind "Return" when the iterator is exhausted
extract_loop(c, p, ranges, found_blocks, possible) ==
  IF p >= Len(c) THEN [kind |-> "Return", ranges |-> ranges, pos |-> p]
  ELSE extract_continue(c, extract_iteration(c, p, ranges, found_blocks, possible),
                        possible)

\* extract_doc_blocks: kind is "None", "Some" or "Panic"; slices are the
\* borrowed &str values of the returned Vec, ranges their offsets in content
extract_outcome(c, r) ==
  IF r.kind = "Panic" THEN [kind |-> "Panic", ranges |-> << >>, slices |-> << >>]
  ELSE IF r.kind = "None" \/ r.ranges = << >>
  THEN [kind |-> "None", ranges |-> << >>, slices |-> << >>]
  ELSE [kind |-> "Some", ranges |-> r.ranges,
        slices |-> [i \in 1..Len(r.ranges) |->
                      Slice(c, r.ranges[i][1], r.ranges[i][2])]]

extract_doc_blocks(c) ==
  IF possible_doc_blocks(c) = 0
  THEN [kind |-> "None", ranges |-> << >>, slices |-> << >>]
  ELSE extract_outcome(c, extract_loop(c, 0, << >>, 0, possible_doc_blocks(c)))

\* str::trim_start and str::trim
RECURSIVE TrimStart(_)
TrimStart(s) ==
  IF s # << >> /\ IsWhitespace(s[1]) THEN TrimStart(Tail(s)) ELSE s

RECURSIVE TrimEnd(_)
TrimEnd(s) ==
  IF s # << >> /\ IsWhitespace(s[Len(s)])
  THEN TrimEnd(SubSeq(s, 1, Len(s) - 1))
  ELSE s

Trim(s) == TrimEnd(TrimStart(s))

\* s.chars().take(limit).take_while(|c| c.is_whitespace()).count()
RECURSIVE LeadingWhitespace(_, _)
LeadingWhitespace(s, limit) ==
  IF limit > 0 /\ s # << >> /\ IsWhitespace(s[1])
  THEN 1 + LeadingWhitespace(Tail(s), limit - 1)
  ELSE 0

\* str::lines for a text without carriage returns: the pieces between the
\* newlines, without a final empty piece
RECURSIVE Lines(_)
Lines(s) ==
  IF s = << >> THEN << >>
  ELSE IF \E i \in 1..Len(s) : s[i] = "\n"
       THEN LET i == CHOOSE k \in 1..Len(s) :
                       s[k] = "\n" /\ \A j \in 1..(k - 1) : s[j] # "\n"
            IN <<SubSeq(s, 1, i - 1)>> \o Lines(SubSeq(s, i + 1, Len(s)))
       ELSE <<s>>

\* the enumerate().for_each() of the example branch: join with '\n'
RECURSIVE JoinLines(_)
JoinLines(ls) ==
  IF ls = << >> THEN << >>
  ELSE IF Len(ls) = 1 THEN ls[1]
  ELSE ls[1] \o <<"\n">> \o JoinLines(Tail(ls))

Bytes_description == <<"d", "e", "s", "c", "r", "i", "p", "t", "i", "o", "n">>

Bytes_param == <<"p", "a", "r", "a", "m">>

Bytes_example == <<"e", "x", "a", "m", "p", "l", "e">>

\* &["@param ", "@example ", "@description "]
AnnotationMarkers ==
  { <<"@">> \o Bytes_param \o <<" ">>,
    <<"@">> \o Bytes_example \o <<" ">>,
    <<"@">> \o Bytes_description \o <<" ">> }

Bytes_string == <<"s", "t", "r", "i", "n", "g">>

Bytes_number == <<"n", "u", "m", "b", "e", "r">>

Bytes_boolean == <<"b", "o", "o", "l", "e", "a", "n">>

Bytes_object == <<"o", "b", "j", "e", "c", "t">>

\* crate::shopify_liquid_objects::SHOPIFY_ALLOWED_OBJECTS: the names the
\* parser is exercised with ("collection" is the one the tests rely on)
SHOPIFY_ALLOWED_OBJECTS ==
  { <<"c", "o", "l", "l", "e", "c", "t", "i", "o", "n">>, <<"c", "a", "r", "t">> }

\* Param::default() and DocBlock::default()
DefaultParam ==
  [name |-> << >>, description |-> None, type_ |-> None, optional |-> FALSE]

DefaultDocBlock == [description |-> << >>, param |-> << >>, example |-> << >>]

\* the resolution of a type name at lines 194-211: Some(type) or None for
\* UnknownParameterType
explicit_type(type_name) ==
  IF type_name = Bytes_string THEN Some(<<"String">>)
  ELSE IF type_name = Bytes_number THEN Some(<<"Number">>)
  ELSE IF type_name = Bytes_boolean THEN Some(<<"Boolean">>)
  ELSE IF type_name = Bytes_object THEN Some(<<"Object">>)
  ELSE IF type_name \in {Bytes_string, Bytes_number, Bytes_boolean, Bytes_object}
          \/ type_name \in SHOPIFY_ALLOWED_OBJECTS
       THEN Some(<<"Shopify", type_name>>)
       ELSE None

EndsWithBrackets(s) ==
  Len(s) >= 2 /\ s[Len(s) - 1] = "[" /\ s[Len(s)] = "]"

\* The parser's state between two statements of parse_doc_content: the
\* cursor, the DocBlock built so far and how the call stands ("run" while it
\* goes on, "err" after return Err(err), "panic" after a slice off a char
\* boundary).
Running(pos, doc) == [pos |-> pos, doc |-> doc, status |-> "run", err |-> << >>]

Failed(pos, doc, err) == [pos |-> pos, doc |-> doc, status |-> "err", err |-> err]

Panicked(pos, doc) == [pos |-> pos, doc |-> doc, status |-> "panic", err |-> << >>]

TextFrom(c, line_start) == Slice(c, line_start, Len(c))

MissingParameterName(c, line_start) ==
  LET lc == get_line_and_column(c, line_start) IN
    <<"MissingParameterName", lc[1], lc[2], TextFrom(c, line_start)>>

\* lines 143-146: the description without @description
leading_description(c, line_start, p, doc) ==
  LET r == consume_until_either(c, p, AnnotationMarkers)
      end_pos == IF r.ret = None THEN Len(c) ELSE r.ret[1]
  IN IF ~SliceOk(c, line_start, end_pos) THEN Panicked(r.pos, doc)
     ELSE Running(r.pos,
                  [doc EXCEPT !.description = Trim(Slice(c, line_start, end_pos))])

\* description_annotation without the test that no description is set yet
description_annotation_overwriting(c, p, doc) ==
  IF peek_matches_panics(c, p, Bytes_description) THEN Panicked(p, doc)
  ELSE IF peek_matches(c, p, Bytes_description)
  THEN
    LET start_pos == consume_whitespace(c, consume_chars(c, p, 11))
        r == consume_until_either(c, start_pos, AnnotationMarkers)
        end_pos == IF r.ret = None THEN Len(c) ELSE r.ret[1]
    IN IF end_pos > start_pos
       THEN IF ~SliceOk(c, start_pos, end_pos) THEN Panicked(r.pos, doc)
            ELSE LET t == Trim(Slice(c, start_pos, end_pos)) IN
                   Running(r.pos,
                     [doc EXCEPT !.description =
                        IF t # << >> /\ t[1] = "-" THEN Trim(Tail(t)) ELSE t])
       ELSE Running(r.pos, doc)
  ELSE Running(p, doc)

\* lines 151-166: the @description annotation
description_annotation(c, p, doc) ==
  IF peek_matches_panics(c, p, Bytes_description) THEN Panicked(p, doc)
  ELSE IF peek_matches(c, p, Bytes_description) /\ doc.description = << >>
  THEN
    LET start_pos == consume_whitespace(c, consume_chars(c, p, 11))
        r == consume_until_either(c, start_pos, AnnotationMarkers)
        end_pos == IF r.ret = None THEN Len(c) ELSE r.ret[1]
    IN IF end_pos > start_pos
       THEN IF ~SliceOk(c, start_pos, end_pos) THEN Panicked(r.pos, doc)
            ELSE LET t == Trim(Slice(c, start_pos, end_pos)) IN
                   Running(r.pos,
                     [doc EXCEPT !.description =
                        IF t # << >> /\ t[1] = "-" THEN Trim(Tail(t)) ELSE t])
       ELSE Running(r.pos, doc)
  ELSE Running(p, doc)

\* lines 180-223: the optional {type} of an @param; p is the cursor after the
\* keyword and its whitespace, where a character is known to follow
param_type(c, line_start, p) ==
  IF c[p + 1] = "{"
  THEN
    LET r == consume_until(c, Advance(c, p), <<"}">>) IN
    IF r.panic THEN [status |-> "panic", pos |-> r.pos, type_ |-> None, err |-> << >>]
    ELSE IF r.ret = None
    THEN [status |-> "err", pos |-> r.pos, type_ |-> None,
          err |-> <<"UnexpectedParameterEnd", TextFrom(c, line_start)>>]
    ELSE IF ~SliceOk(c, p + 1, r.ret[1])
    THEN [status |-> "panic", pos |-> r.pos, type_ |-> None, err |-> << >>]
    ELSE
      LET trimmed == Trim(Slice(c, p + 1, r.ret[1]))
          is_array == EndsWithBrackets(trimmed)
          type_name == IF is_array THEN SubSeq(trimmed, 1, Len(trimmed) - 2)
                       ELSE trimmed
          resolved == explicit_type(type_name)
      IN IF resolved = None
         THEN [status |-> "err", pos |-> r.pos, type_ |-> None,
               err |-> <<"UnknownParameterType", type_name>>]
         ELSE [status |-> "run", pos |-> Advance(c, r.pos),
               type_ |-> IF is_array THEN Some(<<"ArrayOf", resolved[1]>>)
                         ELSE Some(resolved[1]),
               err |-> << >>]
  ELSE [status |-> "run", pos |-> p, type_ |-> None, err |-> << >>]

\* param_description ending at the next annotation marker or newline
param_description_until_marker(c, p) ==
  IF p < Len(c) /\ c[p + 1] # "\n"
  THEN
    LET p1 == consume_whitespace_until_newline(c, p)
        start_pos == IF p1 < Len(c)
                     THEN (IF c[p1 + 1] = "-" THEN p1 + 1 ELSE p1)
                     ELSE Len(c)
        r == consume_until_either(c, p1, AnnotationMarkers \cup {<<"\n">>})
        end_pos == IF r.ret = None THEN Len(c) ELSE r.ret[1]
    IN IF end_pos > start_pos
       THEN IF ~SliceOk(c, start_pos, end_pos)
            THEN [panic |-> TRUE, pos |-> r.pos, description |-> None]
            ELSE [panic |-> FALSE, pos |-> r.pos,
                  description |-> Some(Trim(Slice(c, start_pos, end_pos)))]
       ELSE [panic |-> FALSE, pos |-> r.pos, description |-> None]
  ELSE [panic |-> FALSE, pos |-> p, description |-> None]

\* lines 267-281: the optional description of an @param; p is the cursor
\* after the name (and its closing bracket)
param_description(c, p) ==
  IF p < Len(c) /\ c[p + 1] # "\n"
  THEN
    LET p1 == consume_whitespace_until_newline(c, p)
        start_pos == IF p1 < Len(c)
                     THEN (IF c[p1 + 1] = "-" THEN p1 + 1 ELSE p1)
                     ELSE Len(c)
        r == consume_until(c, p1, <<"\n">>)
        end_pos == IF r.ret = None THEN Len(c) ELSE r.ret[1]
    IN IF r.panic THEN [panic |-> TRUE, pos |-> r.pos, description |-> None]
       ELSE IF end_pos > start_pos
       THEN IF ~SliceOk(c, start_pos, end_pos)
            THEN [panic |-> TRUE, pos |-> r.pos, description |-> None]
            ELSE [panic |-> FALSE, pos |-> r.pos,
                  description |-> Some(Trim(Slice(c, start_pos, end_pos)))]
       ELSE [panic |-> FALSE, pos |-> r.pos, description |-> None]
  ELSE [panic |-> FALSE, pos |-> p, description |-> None]

\* lines 225-285: optionality, name and description of an @param; p is the
\* cursor after the type
param_name(c, line_start, p, doc, type_) ==
  LET p1 == consume_whitespace_until_newline(c, p) IN
  IF p1 >= Len(c) THEN Failed(p1, doc, MissingParameterName(c, line_start))
  ELSE
    LET optional == (c[p1 + 1] = "[")
        start_pos == IF optional THEN p1 + 1 ELSE p1
        p2 == consume_whitespace_until_newline(
                c, IF optional THEN Advance(c, p1) ELSE p1)
        until == IF optional THEN consume_until(c, p2, <<"]">>)
                 ELSE LET e == consume_until_either(c, p2, {<<" ">>, <<"\n">>})
                      IN [pos |-> e.pos, panic |-> FALSE,
                          ret |-> IF e.ret = None THEN Some(Len(c)) ELSE e.ret]
    IN
    IF until.panic THEN Panicked(until.pos, doc)
    ELSE IF until.ret = None
    THEN Failed(until.pos, doc,
                <<"MissingOptionalClosingBracket", TextFrom(c, line_start)>>)
    ELSE IF ~SliceOk(c, start_pos, until.ret[1]) THEN Panicked(until.pos, doc)
    ELSE
      LET name == Trim(Slice(c, start_pos, until.ret[1]))
          p3 == IF optional THEN Advance(c, until.pos) ELSE until.pos
      IN
      IF name = << >> THEN Failed(p3, doc, MissingParameterName(c, line_start))
      ELSE IF \E i \in 1..Len(name) : name[i] = "\n"
      THEN Failed(p3, doc,
                  <<"MissingOptionalClosingBracket", TextFrom(c, line_start)>>)
      ELSE
        LET d == param_description(c, p3)
            param == [name |-> name, description |-> d.description,
                      type_ |-> type_, optional |-> optional]
        IN IF d.panic THEN Panicked(d.pos, doc)
           ELSE IF param # DefaultParam
           THEN Running(d.pos, [doc EXCEPT !.param = Append(@, param)])
           ELSE Running(d.pos, doc)

\* lines 169-286: the @param annotation
param_annotation(c, line_start, p, doc) ==
  IF peek_matches_panics(c, p, Bytes_param) THEN Panicked(p, doc)
  ELSE IF peek_matches(c, p, Bytes_param)
  THEN
    LET p1 == consume_whitespace_until_newline(c, consume_chars(c, p, 5)) IN
    IF p1 >= Len(c)
    THEN Failed(p1, doc, <<"UnexpectedParameterEnd", TextFrom(c, line_start)>>)
    ELSE
      LET t == param_type(c, line_start, p1) IN
        IF t.status = "panic" THEN Panicked(t.pos, doc)
        ELSE IF t.status = "err" THEN Failed(t.pos, doc, t.err)
        ELSE param_name(c, line_start, t.pos, doc, t.type_)
  ELSE Running(p, doc)

\* lines 306-309: one line of an example without its indentation
strip_line(line, indentation_level) ==
  LET chars_to_skip == LeadingWhitespace(line, indentation_level - 1) IN
    SubSeq(line, chars_to_skip + 1, Len(line))

\* lines 300-319: the text of an example
example_text(text) ==
  LET indentation_level == LeadingWhitespace(text, Len(text)) IN
    IF indentation_level > 0
    THEN LET ls == Lines(Trim(text)) IN
           JoinLines([i \in 1..Len(ls) |-> strip_line(ls[i], indentation_level)])
    ELSE Trim(text)

\* lines 289-324: the @example annotation
example_annotation(c, p, doc) ==
  IF peek_matches_panics(c, p, Bytes_example) THEN Panicked(p, doc)
  ELSE IF peek_matches(c, p, Bytes_example)
  THEN
    LET start_pos == consume_whitespace_until_newline(c, consume_chars(c, p, 7))
        r == consume_until_either(c, start_pos, AnnotationMarkers)
        end_pos == IF r.ret = None THEN Len(c) ELSE r.ret[1]
    IN IF ~SliceOk(c, start_pos, end_pos) THEN Panicked(r.pos, doc)
       ELSE LET example == example_text(Slice(c, start_pos, end_pos)) IN
              IF example # << >>
              THEN Running(r.pos, [doc EXCEPT !.example = Append(@, example)])
              ELSE Running(r.pos, doc)
  ELSE Running(p, doc)

\* the rest of an iteration once the @example test is reached: q is the
\* parser's state after the @param test
example_step(c, q) ==
  IF q.status # "run" THEN q ELSE example_annotation(c, q.pos, q.doc)

\* the rest of an iteration once the @param test is reached: d is the
\* parser's state after the @description test
param_step(c, line_start, d) ==
  IF d.status # "run" THEN d
  ELSE example_step(c, param_annotation(c, line_start, d.pos, d.doc))

\* one iteration of the while loop of parse_doc_content (lines 141-326); the
\* cursor is before the character the iteration takes with chars.next()
parse_iteration(c, p, doc) ==
  LET line_start == p
      ch == c[p + 1]
      p1 == Advance(c, p)
  IN
  IF ch # "@"
  THEN IF doc.description = << >> THEN leading_description(c, line_start, p1, doc)
       ELSE Running(p1, doc)
  ELSE param_step(c, line_start, description_annotation(c, p1, doc))

RECURSIVE parse_loop(_, _, _)

\* the while loop goes on from the state st an iteration has left, unless
\* the iteration has returned or panicked
parse_continue(c, st) ==
  IF st.status # "run" THEN st ELSE parse_loop(c, st.pos, st.doc)

\* while let Some((line_start, ch)) = self.chars.next()
parse_loop(c, p, doc) ==
  IF p >= Len(c) THEN Running(p, doc)
  ELSE parse_continue(c, parse_iteration(c, p, doc))

\* parse_result with the record compared on its description alone
parse_result_description_only(doc) ==
  IF doc.description = << >>
  THEN [kind |-> "Err", doc |-> DefaultDocBlock, err |-> <<"NoDocContentFound">>]
  ELSE [kind |-> "Ok", doc |-> doc, err |-> << >>]

\* lines 328-332: the value returned once the loop is over
parse_result(doc) ==
  IF doc = DefaultDocBlock
  THEN [kind |-> "Err", doc |-> DefaultDocBlock, err |-> <<"NoDocContentFound">>]
  ELSE [kind |-> "Ok", doc |-> doc, err |-> << >>]

\* the outcome of the call for the state st the loop has ended in
parse_outcome(st) ==
  IF st.status = "panic"
  THEN [kind |-> "Panic", doc |-> DefaultDocBlock, err |-> << >>]
  ELSE IF st.status = "err"
  THEN [kind |-> "Err", doc |-> DefaultDocBlock, err |-> st.err]
  ELSE parse_result(st.doc)

\* parse_doc_content: kind is "Ok" (doc is the DocBlock), "Err" (err is the
\* ParsingError) or "Panic"
parse_doc_content(c) ==
  parse_outcome(parse_loop(c, consume_whitespace(c, 0), DefaultDocBlock))

\* ---- input texts ----

RECURSIVE Flatten(_)
Flatten(fs) == IF fs = << >> THEN << >> ELSE fs[1] \o Flatten(Tail(fs))

\* every text made of at most n fragments of F
TextsOf(F, n) == {Flatten(fs) : fs \in UNION {[1..k -> F] : k \in 0..n}}

Tag(name) == <<"{", "%", " ">> \o name \o <<" ", "%", "}">>

MaxTagFragments == 4

TagFragments ==
  { Tag(Bytes_doc), Tag(Bytes_enddoc), Tag(Bytes_raw), Tag(Bytes_endraw),
    Tag(Bytes_comment), Tag(Bytes_endcomment),
    <<"x">>, <<LeadByte, ContByte>>, <<"{">>, Bytes_enddoc }

MaxBodyFragments == 4

BodyFragments ==
  { <<"@">> \o Bytes_description \o <<" ">>,
    <<"@">> \o Bytes_param \o <<" ">>, <<"@">> \o Bytes_param \o <<"\n">>,
    <<"@">> \o Bytes_example \o <<" ">>, <<"@">> \o Bytes_example \o <<"\n">>,
    <<"x">>, <<" ">>, <<"\n">>, <<"-">>, <<"@">>, <<LeadByte, ContByte>> }

\* ---- the state machine ----

Pending == [kind |-> "Pending"]

TypeOK ==
  /\ pc \in {"start", "scanning", "extracted", "parsing", "parsed", "located"}
  /\ blocks.kind \in {"Pending", "None", "Some", "Panic"}
  /\ parsed.kind \in {"Pending", "Ok", "Err", "Panic"}
  /\ position.kind \in {"Pending", "At"}
  /\ scan.kind \in {"Pending", "Extract", "Parse"}

\* a call of LiquidDocs::extract_doc_blocks(content)
ExtractDocBlocks ==
  /\ pc = "start"
  /\ blocks' = extract_doc_blocks(content)
  /\ pc' = "extracted"
  /\ UNCHANGED <<content, parsed, position, scan>>

\* a call of LiquidDocs::parse_doc_content(content)
ParseDocContent ==
  /\ pc = "start"
  /\ parsed' = parse_doc_content(content)
  /\ pc' = "parsed"
  /\ UNCHANGED <<content, blocks, position, scan>>

\* a call of get_line_and_column(byte_offset) on a parser of content, with
\* a byte offset within the content
GetLineAndColumn ==
  /\ pc = "start"
  /\ \E byte_offset \in 0..Len(content) :
       position' = [kind |-> "At", byte_offset |-> byte_offset,
                    at |-> get_line_and_column(content, byte_offset)]
  /\ pc' = "located"
  /\ UNCHANGED <<content, blocks, parsed, scan>>

InitWith(texts) ==
  /\ content \in texts
  /\ pc = "start"
  /\ blocks = Pending
  /\ parsed = Pending
  /\ position = Pending
  /\ scan = Pending

Init == InitWith(TextsOf(TagFragments, MaxTagFragments))

Next == ExtractDocBlocks

Spec == Init /\ [][Next]_vars

InitParse == InitWith(TextsOf(BodyFragments, MaxBodyFragments))

NextParse == ParseDocContent

SpecParse == InitParse /\ [][NextParse]_vars

\* ---- the structure of a text, read off the text itself ----

Occurrences(t, needle) == {i \in 0..Len(t) : StartsWith(t, i, needle)}

TagOpener == <<"{", "%">>

Min(S) == CHOOSE i \in S : \A j \in S : i <= j

\* t is P ++ "{% doc %}" ++ B ++ "{% enddoc %}" ++ S with no "{%" in P, B, S
IsSingleDocBlock(t) ==
  \E i, j \in Occurrences(t, TagOpener) :
    /\ Occurrences(t, TagOpener) = {i, j}
    /\ StartsWith(t, i, Tag(Bytes_doc))
    /\ StartsWith(t, j, Tag(Bytes_enddoc))
    /\ i + Len(Tag(Bytes_doc)) <= j

SingleDocBody(t) ==
  LET i == Min(Occurrences(t, Tag(Bytes_doc)))
      j == Min(Occurrences(t, Tag(Bytes_enddoc)))
  IN Slice(t, i + Len(Tag(Bytes_doc)), j)

\* C1: for every text P ++ "{% doc %}" ++ B ++ "{% enddoc %}" ++ S whose P, B
\* and S hold no "{%", extract_doc_blocks returns Some of exactly one slice,
\* equal to B byte for byte.
C1_SingleBlockExtracted ==
  (pc = "extracted" /\ IsSingleDocBlock(content))
    => (blocks.kind = "Some" /\ blocks.slices = <<SingleDocBody(content)>>)

\* the text opens, as its first tag, a raw or a comment region
OpensRegion(t) ==
  /\ Occurrences(t, TagOpener) # {}
  /\ LET i == Min(Occurrences(t, TagOpener)) IN
       StartsWith(t, i, Tag(Bytes_raw)) \/ StartsWith(t, i, Tag(Bytes_comment))

\* the offset just after the tag that closes the first region (the end of the
\* text when the region is not closed)
RegionEnd(t) ==
  LET i == Min(Occurrences(t, TagOpener))
      closer == IF StartsWith(t, i, Tag(Bytes_raw)) THEN Tag(Bytes_endraw)
                ELSE Tag(Bytes_endcomment)
      ends == {j \in Occurrences(t, closer) : j > i}
  IN IF ends = {} THEN Len(t) ELSE Min(ends) + Len(closer)

\* C2: a doc/enddoc pair between a raw tag and its endraw tag, or between a
\* comment tag and its endcomment tag, is never extracted, and the result is
\* None when no doc block lies outside such a region.
C2_RegionNeverExtracted ==
  (pc = "extracted" /\ OpensRegion(content))
    => /\ blocks.kind = "Some" =>
            \A k \in 1..Len(blocks.ranges) :
              blocks.ranges[k][1] >= RegionEnd(content)
       /\ {i \in Occurrences(content, TagOpener) : i >= RegionEnd(content)} = {}
            => blocks.kind = "None"


\* ---- the parser's claims ----

ParsingErrorVariants ==
  { "MissingParameterName", "MissingOptionalClosingBracket",
    "UnexpectedParameterEnd", "UnknownParameterType", "NoDocContentFound" }

\* C3: parse_doc_content never panics: every call returns Ok(DocBlock) or Err
\* with one of the five ParsingError variants.
C3_ParseNeverPanics ==
  pc = "parsed"
    => \/ parsed.kind = "Ok"
       \/ (parsed.kind = "Err" /\ parsed.err[1] \in ParsingErrorVariants)

\* C4: Err(NoDocContentFound) is returned exactly when the scan completes
\* without another error and leaves the empty record; no Ok result is the
\* empty DocBlock; the empty and the whitespace-only body give
\* NoDocContentFound.
C4_NoDocContentFound ==
  pc = "parsed"
    => LET st == parse_loop(content, consume_whitespace(content, 0), DefaultDocBlock)
           no_content == parsed.kind = "Err" /\ parsed.err = <<"NoDocContentFound">>
       IN /\ no_content <=> (st.status = "run" /\ st.doc = DefaultDocBlock)
          /\ parsed.kind = "Ok" =>
               \/ parsed.doc.description # << >>
               \/ parsed.doc.param # << >>
               \/ parsed.doc.example # << >>
          /\ (\A i \in 1..Len(content) : IsWhitespace(content[i])) => no_content

C4_Witness ==
  /\ pc = "parsed"
  /\ parsed.kind = "Err"
  /\ parsed.err = <<"NoDocContentFound">>
  /\ content # << >>

\* the offset of the first character of the body that is not whitespace
FirstText(c) ==
  LET S == {i \in 0..(Len(c) - 1) : ~IsWhitespace(c[i + 1])} IN
    IF S = {} THEN Len(c) ELSE Min(S)

\* the offset of the first annotation marker at or after offset from, or the
\* length of the body
NextMarker(c, from) ==
  LET S == {i \in from..Len(c) : \E m \in AnnotationMarkers : StartsWith(c, i, m)} IN
    IF S = {} THEN Len(c) ELSE Min(S)

Keyword_description == <<"@">> \o Bytes_description

Keyword_param == <<"@">> \o Bytes_param

Keyword_example == <<"@">> \o Bytes_example

\* the keyword at offset i is followed by a word boundary
KeywordAt(c, i, keyword) ==
  /\ StartsWith(c, i, keyword)
  /\ (i + Len(keyword) < Len(c) => ~IsAsciiAlphanumeric(c[i + Len(keyword) + 1]))

BeginsWithDescriptionAnnotation(c) == KeywordAt(c, FirstText(c), Keyword_description)

\* the body of the @description annotation the body begins with, trimmed
FirstAnnotationBody(c) ==
  LET after == FirstText(c) + Len(Keyword_description) IN
    Trim(Slice(c, after, NextMarker(c, after)))

WithoutLeadingDash(t) == IF t # << >> /\ t[1] = "-" THEN Trim(Tail(t)) ELSE t

BeginsWithText(c) == FirstText(c) < Len(c) /\ c[FirstText(c) + 1] # "@"

LeadingText(c) == Trim(Slice(c, FirstText(c), NextMarker(c, FirstText(c))))

\* C7 as amended: only the first description is kept, whatever @description
\* annotations follow it: a body that begins with text has that text, up to
\* the first annotation marker and trimmed, as its description; a body that
\* begins with @description has that annotation's body up to the next marker,
\* trimmed, with one leading "-" removed and trimmed again, when that is not
\* empty.
C7_FirstDescriptionKept ==
  (pc = "parsed" /\ parsed.kind = "Ok")
    => /\ BeginsWithText(content) => parsed.doc.description = LeadingText(content)
       /\ (/\ BeginsWithDescriptionAnnotation(content)
           /\ WithoutLeadingDash(FirstAnnotationBody(content)) # << >>)
            => parsed.doc.description = WithoutLeadingDash(FirstAnnotationBody(content))

\* a first description followed by a later @description annotation
C7_Witness ==
  /\ pc = "parsed"
  /\ parsed.kind = "Ok"
  /\ BeginsWithDescriptionAnnotation(content)
  /\ Cardinality(Occurrences(content, Keyword_description)) >= 2
  /\ parsed.doc.description = WithoutLeadingDash(FirstAnnotationBody(content))
  /\ parsed.doc.description # << >>

\* C7 as stated: a body that begins with @description has that annotation's
\* trimmed body up to the next annotation marker as its description.
C7_DescriptionIsTrimmedBody ==
  (pc = "parsed" /\ parsed.kind = "Ok")
    => /\ BeginsWithText(content) => parsed.doc.description = LeadingText(content)
       /\ (BeginsWithDescriptionAnnotation(content) /\ FirstAnnotationBody(content) # << >>)
            => parsed.doc.description = FirstAnnotationBody(content)

BeginsWithMarker(c) ==
  \E m \in AnnotationMarkers : StartsWith(c, FirstText(c), m)

\* C8: in a successful parse of a body without @description annotation the
\* description is the trimmed text before the first annotation marker; text
\* after an annotation never becomes the description, so a body that begins
\* with an annotation has an empty description.
C8_DescriptionIsLeadingText ==
  (/\ pc = "parsed"
   /\ parsed.kind = "Ok"
   /\ Occurrences(content, Keyword_description) = {}
   /\ (BeginsWithText(content) \/ BeginsWithMarker(content)))
    => parsed.doc.description =
         Trim(Slice(content, 0, NextMarker(content, 0)))

\* an "@" that one of the three keywords follows (in any letter case, with a
\* word boundary after it)
AnnotationStarts(c) ==
  {i \in 0..(Len(c) - 1) :
     /\ c[i + 1] = "@"
     /\ \E k \in {Bytes_description, Bytes_param, Bytes_example} :
          /\ i + 1 + Len(k) <= Len(c)
          /\ EqIgnoreAsciiCase(SubSeq(c, i + 2, i + 1 + Len(k)), k)
          /\ (i + 1 + Len(k) < Len(c) => ~IsAsciiAlphanumeric(c[i + 2 + Len(k)]))}

\* C9: an "@" that no keyword follows is ordinary text, kept in the text it
\* belongs to at any position of the body, the first character included: a
\* body without any annotation is, trimmed, the description.
C9_AtSignIsOrdinaryText ==
  (pc = "parsed" /\ parsed.kind = "Ok" /\ AnnotationStarts(content) = {})
    => /\ parsed.doc.description = Trim(content)
       /\ parsed.doc.param = << >>
       /\ parsed.doc.example = << >>

\* the @example annotations of a body and the end of the text of the one at i
ExampleStarts(c) == {i \in AnnotationStarts(c) : StartsWith(c, i, Keyword_example)}

ExampleTextEnd(c, i) ==
  LET S == {j \in AnnotationStarts(c) : j > i} IN
    IF S = {} THEN Len(c) ELSE Min(S)

NonEmptyExamples(c) ==
  {i \in ExampleStarts(c) :
     Trim(Slice(c, i + Len(Keyword_example), ExampleTextEnd(c, i))) # << >>}

AtWordStart(c, i) == i = 0 \/ IsWhitespace(c[i])

\* C10: every @example annotation whose text is not empty after trimming adds
\* exactly one entry to the example list, whether a space or a newline follows
\* the keyword; an empty one adds none.  (Checked on bodies without @param,
\* whose annotations all start a word.)
C10_EveryExampleKept ==
  (/\ pc = "parsed"
   /\ parsed.kind = "Ok"
   /\ Occurrences(content, Keyword_param) = {}
   /\ \A i \in AnnotationStarts(content) : AtWordStart(content, i))
    => Len(parsed.doc.example) = Cardinality(NonEmptyExamples(content))

\* the @param annotations of a body, and those without a name: only
\* whitespace follows the keyword up to the end of the line or of the body
ParamStarts(c) == {i \in AnnotationStarts(c) : StartsWith(c, i, Keyword_param)}

AtLineStart(c, i) == i = 0 \/ c[i] = "\n"

NamelessParams(c) ==
  {i \in ParamStarts(c) :
     LET e == consume_whitespace_until_newline(c, i + Len(Keyword_param)) IN
       e = Len(c) \/ c[e + 1] = "\n"}

\* C6: when an @param annotation is malformed the parse returns Err, and the
\* error is the one of the first malformed annotation.  (Checked on bodies
\* whose @param annotations all start a line and have, at most, the name
\* missing.)
C6_FirstMalformedParamFails ==
  (/\ pc = "parsed"
   /\ \A i \in ParamStarts(content) : AtLineStart(content, i)
   /\ \A i \in ParamStarts(content) :
        StartsWith(content, i + Len(Keyword_param), <<"\n">>)
        \/ StartsWith(content, i + Len(Keyword_param), <<" ">>)
        \/ i + Len(Keyword_param) = Len(content)
   /\ Occurrences(content, <<"[">>) = {} /\ Occurrences(content, <<"{">>) = {}
   /\ NamelessParams(content) # {})
    => /\ parsed.kind = "Err"
       /\ parsed.err[1] \in {"MissingParameterName", "UnexpectedParameterEnd"}
       /\ parsed.err[Len(parsed.err)] = TextFrom(content, Min(NamelessParams(content)))


\* ---- @param annotations with a {type} ----

MaxTypeFragments == 3

TypeFragments ==
  { Bytes_string, Bytes_object, <<"c", "a", "r", "t">>, <<"f", "o", "o">>,
    <<"[", "]">>, <<" ">>, <<LeadByte, ContByte>> }

ParamWithType(inner) ==
  Keyword_param \o <<" ", "{">> \o inner \o <<"}", " ", "x">>

TypedParamBodies ==
  {ParamWithType(inner) : inner \in TextsOf(TypeFragments, MaxTypeFragments)}
    \cup {Keyword_param \o <<" ", "x">>}

InitTypes == InitWith(TypedParamBodies)

SpecTypes == InitTypes /\ [][NextParse]_vars

\* the text between the braces of the annotation, trimmed, and the name left
\* when one trailing "[]" is removed
BracedText(c) ==
  Trim(Slice(c, Min(Occurrences(c, <<"{">>)) + 1, Min(Occurrences(c, <<"}">>))))

BaseTypeName(c) ==
  IF EndsWithBrackets(BracedText(c))
  THEN SubSeq(BracedText(c), 1, Len(BracedText(c)) - 2)
  ELSE BracedText(c)

ResolvedType(name) ==
  CASE name = Bytes_string -> <<"String">>
    [] name = Bytes_number -> <<"Number">>
    [] name = Bytes_boolean -> <<"Boolean">>
    [] name = Bytes_object -> <<"Object">>
    [] OTHER -> <<"Shopify", name>>

KnownTypeNames ==
  {Bytes_string, Bytes_number, Bytes_boolean, Bytes_object} \cup SHOPIFY_ALLOWED_OBJECTS

\* C5: the text between the braces is trimmed and one trailing "[]" removed;
\* the name left resolves to String, Number, Boolean, Object or the platform
\* object of the allow-list, and otherwise the parse fails with
\* UnknownParameterType carrying that name; the type is ArrayOf(resolved)
\* exactly when the "[]" was there; type_ is None exactly when no "{" follows
\* the keyword.
C5_TypeResolution ==
  pc = "parsed"
    => IF Occurrences(content, <<"{">>) = {}
       THEN /\ parsed.kind = "Ok"
            /\ Len(parsed.doc.param) = 1
            /\ parsed.doc.param[1].type_ = None
       ELSE IF BaseTypeName(content) \in KnownTypeNames
       THEN /\ parsed.kind = "Ok"
            /\ Len(parsed.doc.param) = 1
            /\ parsed.doc.param[1].type_ =
                 IF EndsWithBrackets(BracedText(content))
                 THEN Some(<<"ArrayOf", ResolvedType(BaseTypeName(content))>>)
                 ELSE Some(ResolvedType(BaseTypeName(content)))
       ELSE /\ parsed.kind = "Err"
            /\ parsed.err = <<"UnknownParameterType", BaseTypeName(content)>>

\* ---- @example blocks with indented lines ----

MaxIndent == 2

MaxExtraIndent == 2

MaxBlankLines == 2

MaxExampleLines == 3

Spaces(n) == [i \in 1..n |-> " "]

Newlines(n) == [i \in 1..n |-> "\n"]

\* a line of an example: n spaces of indentation before its text
ExampleLine(n) == Spaces(n) \o <<"x">>

\* "@example", the newline that ends its line, b blank lines, a first text
\* line indented by n and up to MaxExampleLines - 1 lines indented by n or more
ExampleBodies ==
  { Keyword_example \o Newlines(1 + b)
      \o JoinLines(<<ExampleLine(n)>>
                     \o [i \in 1..Len(extra) |-> ExampleLine(n + extra[i])]) :
      n \in 0..MaxIndent, b \in 0..MaxBlankLines,
      extra \in UNION {[1..k -> 0..MaxExtraIndent] : k \in 0..(MaxExampleLines - 1)} }

InitExamples == InitWith(ExampleBodies)

SpecExamples == InitExamples /\ [][NextParse]_vars

IsTextLine(line) == line # << >>

\* the text lines of the example block the body consists of
ExampleTextLines(c) ==
  SelectSeq(Lines(Slice(c, Len(Keyword_example), Len(c))), IsTextLine)

\* the block with the indentation of its first text line removed from each line
Dedented(c) ==
  LET ls == ExampleTextLines(c)
      N == LeadingWhitespace(ls[1], Len(ls[1]))
  IN JoinLines([i \in 1..Len(ls) |-> SubSeq(ls[i], N + 1, Len(ls[i]))])

\* C11: an @example block whose lines are all indented by N or more, N being
\* the indentation of its first text line, is stored with exactly N leading
\* whitespace characters removed from each line, for any number of blank
\* lines between the keyword and the first text line.
C11_ExampleDedent ==
  pc = "parsed"
    => /\ parsed.kind = "Ok"
       /\ parsed.doc.example = <<Dedented(content)>>

\* ---- relations between the extractions of two texts ----

\* the text with the byte b inserted at offset i
InsertAt(c, i, b) == SubSeq(c, 1, i) \o <<b>> \o SubSeq(c, i + 1, Len(c))

\* the offset i lies inside one of the slices of the result r
InsideSlice(r, i) ==
  \E k \in 1..Len(r.ranges) : r.ranges[k][1] <= i /\ i < r.ranges[k][2]

\* the texts got by writing a "-" directly after the "{%" or directly before
\* the "%}" of one tag of the given name that is not part of a slice of r
DashVariantsOf(c, name, r) ==
  UNION { {InsertAt(c, i + 2, "-"), InsertAt(c, i + Len(Tag(name)) - 2, "-")} :
            i \in {j \in Occurrences(c, Tag(name)) : ~InsideSlice(r, j)} }

DashVariants(c, r) ==
  DashVariantsOf(c, Bytes_doc, r) \cup DashVariantsOf(c, Bytes_enddoc, r)

\* two results of extract_doc_blocks with the same list of slices
SameSlices(a, b) == a.kind = b.kind /\ a.slices = b.slices

\* C12: writing a "-" directly after the "{%" or directly before the "%}" of
\* a doc tag or an enddoc tag does not change the list of slices that
\* extract_doc_blocks returns (the tags inside a returned slice, whose bytes
\* are the slice's, set aside).
C12_DashesTransparent ==
  pc = "extracted"
    => \A t \in DashVariants(content, blocks) :
         SameSlices(extract_doc_blocks(t), blocks)

\* ---- tags whose names are written in capital letters ----

Bytes_DOC == <<"D", "O", "C">>

Bytes_ENDDOC == <<"E", "N", "D", "D", "O", "C">>

Bytes_RAW == <<"R", "A", "W">>

Bytes_ENDRAW == <<"E", "N", "D", "R", "A", "W">>

MaxCaseFragments == 4

CaseFragments ==
  { Tag(Bytes_doc), Tag(Bytes_enddoc), Tag(Bytes_DOC), Tag(Bytes_ENDDOC),
    Tag(Bytes_raw), Tag(Bytes_endraw), Tag(Bytes_RAW), Tag(Bytes_ENDRAW),
    <<"x">> }

InitCase == InitWith(TextsOf(CaseFragments, MaxCaseFragments))

SpecCase == InitCase /\ [][Next]_vars

\* the text with every ASCII capital letter replaced by its small letter
LowerCased(c) == [i \in 1..Len(c) |-> ToAsciiLowercase(c[i])]

\* two results of extract_doc_blocks with the same blocks: the same offsets
SameBlocks(a, b) == a.kind = b.kind /\ a.ranges = b.ranges

\* C13: changing the letter case of the tag names doc, enddoc, raw, endraw,
\* comment, endcomment does not change which blocks are extracted: the text
\* and the text with its tag names in small letters give the same blocks.
C13_CaseInsensitiveTags ==
  pc = "extracted"
    => SameBlocks(extract_doc_blocks(LowerCased(content)), blocks)

\* ---- tags whose names run on into a letter or a digit ----

Bytes_docs == Bytes_doc \o <<"s">>

Bytes_enddoc1 == Bytes_enddoc \o <<"1">>

MaxBoundaryFragments == 4

BoundaryFragments ==
  { Tag(Bytes_doc), Tag(Bytes_enddoc), Tag(Bytes_docs), Tag(Bytes_enddoc1),
    <<"x">>, <<LeadByte, ContByte>> }

InitBoundary == InitWith(TextsOf(BoundaryFragments, MaxBoundaryFragments))

SpecBoundary == InitBoundary /\ [][Next]_vars

\* C14: a tag named docs or enddoc1 neither opens nor closes a doc block: a
\* text that has such tags and lacks a doc tag, or lacks an enddoc tag,
\* yields None.
C14_WordBoundary ==
  (/\ pc = "extracted"
   /\ Occurrences(content, Tag(Bytes_docs)) \cup Occurrences(content, Tag(Bytes_enddoc1)) # {}
   /\ \/ Occurrences(content, Tag(Bytes_doc)) = {}
      \/ Occurrences(content, Tag(Bytes_enddoc)) = {})
    => blocks.kind = "None"

\* ---- the errors of an @param annotation ----

\* the 1-indexed line and column of the offset i, read off the text
LineOf(c, i) == 1 + Cardinality({j \in 1..i : c[j] = "\n"})

ColumnOf(c, i) ==
  LET before == {j \in 1..i : c[j] = "\n"} IN
    IF before = {} THEN i + 1
    ELSE i + 1 - (CHOOSE j \in before : \A k \in before : k <= j)

\* C15: a body with an @param annotation whose name is empty (only whitespace
\* after the keyword up to the end of the line or of the body) fails with
\* MissingParameterName carrying the 1-indexed line and column of that
\* annotation's "@" and the body text from that "@" to the end.
C15_MissingParameterName ==
  (pc = "parsed" /\ NamelessParams(content) # {})
    => /\ parsed.kind = "Err"
       /\ parsed.err =
            << "MissingParameterName",
               LineOf(content, Min(NamelessParams(content))),
               ColumnOf(content, Min(NamelessParams(content))),
               TextFrom(content, Min(NamelessParams(content))) >>

\* ---- @param annotations with a name in brackets ----

MaxBracketFragments == 5

BracketFragments == { <<"x">>, <<" ">>, <<"\n">>, <<"]">> }

\* "@param [" and what follows the bracket
BracketBodies ==
  { Keyword_param \o <<" ", "[">> \o t :
      t \in TextsOf(BracketFragments, MaxBracketFragments) }

InitBrackets == InitWith(BracketBodies)

SpecBrackets == InitBrackets /\ [][NextParse]_vars

\* the offset of the "[" of a body of BracketBodies
BracketOpen == Len(Keyword_param) + 1

\* the bracket of the body is not closed on its line: no "]" follows, or a
\* newline stands between the "[" and the first "]"
BracketNotClosedOnLine(c) ==
  \/ Occurrences(c, <<"]">>) = {}
  \/ \E j \in (BracketOpen + 1)..(Min(Occurrences(c, <<"]">>)) - 1) : c[j + 1] = "\n"

\* C16: an @param whose name is opened by "[" fails with
\* MissingOptionalClosingBracket, carrying the body text from the
\* annotation's "@", when no "]" follows in the body and when the first "]"
\* is on a later line; it never fails with MissingParameterName then.
C16_MissingOptionalClosingBracket ==
  (pc = "parsed" /\ BracketNotClosedOnLine(content))
    => /\ parsed.kind = "Err"
       /\ parsed.err = <<"MissingOptionalClosingBracket", TextFrom(content, 0)>>

\* ---- @param annotations with a type in braces ----

MaxBraceFragments == 4

BraceFragments == { Bytes_string, <<"}">>, <<" ">>, <<"\n">>, <<"x">> }

\* "@param {" and what follows the brace
BraceBodies ==
  { Keyword_param \o <<" ", "{">> \o t :
      t \in TextsOf(BraceFragments, MaxBraceFragments) }

InitBraces == InitWith(BraceBodies)

SpecBraces == InitBraces /\ [][NextParse]_vars

\* the offset of the "{" of a body of BraceBodies
BraceOpen == Len(Keyword_param) + 1

\* the brace of the body is not closed on its line: no "}" follows, or a
\* newline stands between the "{" and the first "}"
BraceNotClosedOnLine(c) ==
  \/ Occurrences(c, <<"}">>) = {}
  \/ \E j \in (BraceOpen + 1)..(Min(Occurrences(c, <<"}">>)) - 1) : c[j + 1] = "\n"

\* C17: an @param whose "{" has no closing "}" on the annotation's line
\* fails with UnexpectedParameterEnd, carrying the body text from the
\* annotation's "@" to the end; a "}" on a later line does not close the type.
C17_UnexpectedParameterEnd ==
  (pc = "parsed" /\ BraceNotClosedOnLine(content))
    => /\ parsed.kind = "Err"
       /\ parsed.err = <<"UnexpectedParameterEnd", TextFrom(content, 0)>>

\* ---- line and column of a byte offset ----

MaxLineFragments == 4

LineFragments == { <<"x">>, <<"\n">>, <<LeadByte, ContByte>> }

InitLines == InitWith(TextsOf(LineFragments, MaxLineFragments))

NextLines == GetLineAndColumn

SpecLines == InitLines /\ [][NextLines]_vars

\* the byte offsets of the newlines before the offset i
NewlinesBefore(c, i) == {j \in 0..(i - 1) : c[j + 1] = "\n"}

Max(S) == CHOOSE i \in S : \A j \in S : j <= i

\* C18 as stated: line = 1 + the number of newline bytes strictly before the
\* offset, and column = 1 + (offset - p), p the byte position of the nearest
\* newline before the offset, or 0 when there is none.
C18_ColumnFromNewline ==
  pc = "located"
    => LET i == position.byte_offset
           nl == NewlinesBefore(content, i)
           p == IF nl = {} THEN 0 ELSE Max(nl)
       IN position.at = <<1 + Cardinality(nl), 1 + (i - p)>>

\* C18 amended: line = 1 + the number of newline bytes strictly before the
\* offset, and column = offset - p when a newline is before the offset, p
\* being the byte offset of the nearest one, and 1 + offset when there is none.
C18_LineAndColumn ==
  pc = "located"
    => LET i == position.byte_offset
           nl == NewlinesBefore(content, i)
       IN position.at = <<1 + Cardinality(nl),
                          IF nl = {} THEN 1 + i ELSE i - Max(nl)>>

\* a newline is before the offset, and not directly before it
C18_Witness ==
  /\ pc = "located"
  /\ NewlinesBefore(content, position.byte_offset) # {}
  /\ position.byte_offset - Max(NewlinesBefore(content, position.byte_offset)) > 1
  /\ position.at[1] > 1

\* ---- parsing the texts of a result again ----

\* the text has an "@" followed by description, param or example
ContainsAnnotation(t) ==
  \E k \in {Keyword_description, Keyword_param, Keyword_example} :
    Occurrences(t, k) # {}

\* the text, parsed as a fresh body, comes back as the description of a
\* result without params and examples
ParsesToItself(t) ==
  parse_doc_content(t) =
    [kind |-> "Ok", err |-> << >>,
     doc |-> [description |-> t, param |-> << >>, example |-> << >>]]

\* the texts of a result: its description when it has one, and its examples
ResultTexts(doc) ==
  (IF doc.description = << >> THEN {} ELSE {doc.description})
    \cup {doc.example[i] : i \in 1..Len(doc.example)}

\* C19: the description text and every example text of a successful result,
\* when it contains no annotation, parses as a fresh body to Ok with that
\* same text as description, no params and no examples.
C19_Idempotence ==
  (pc = "parsed" /\ parsed.kind = "Ok")
    => \A t \in ResultTexts(parsed.doc) :
         ~ContainsAnnotation(t) => ParsesToItself(t)

\* ---- the name of an @param, bare or in brackets ----

MaxNameFragments == 5

NameFragments == { <<"[">>, <<"]">>, <<"x">>, <<" ">>, <<"\n">> }

\* "@param " and what follows the keyword
NameBodies ==
  { Keyword_param \o <<" ">> \o t :
      t \in TextsOf(NameFragments, MaxNameFragments) }

InitNames == InitWith(NameBodies)

SpecNames == InitNames /\ [][NextParse]_vars

\* the text up to the first occurrence of the byte b, the whole text when
\* there is none
UpTo(t, b) ==
  IF Occurrences(t, <<b>>) = {} THEN t ELSE SubSeq(t, 1, Min(Occurrences(t, <<b>>)))

\* what is written after "@param " on the annotation's line of a body of
\* NameBodies, without the whitespace around it
NameLine(c) == Trim(UpTo(SubSeq(c, Len(Keyword_param) + 2, Len(c)), "\n"))

\* the name is written inside "[" ... "]" on the annotation's line
NameInBrackets(c) ==
  /\ NameLine(c) # << >>
  /\ NameLine(c)[1] = "["
  /\ Occurrences(NameLine(c), <<"]">>) # {}

\* the name as written: the text between the brackets, or the bare word
WrittenName(c) ==
  IF NameInBrackets(c)
  THEN Trim(UpTo(Tail(NameLine(c)), "]"))
  ELSE UpTo(NameLine(c), " ")

\* C20: in every successful result, a param has optional = true exactly
\* when its name was written inside "[" ... "]" on the annotation's line,
\* and its name is the bracketed (or bare) text without the whitespace
\* around it.
C20_OptionalAndName ==
  (pc = "parsed" /\ parsed.kind = "Ok")
    => /\ Len(parsed.doc.param) = 1
       /\ parsed.doc.param[1].optional = NameInBrackets(content)
       /\ parsed.doc.param[1].name = WrittenName(content)

\* ---- the slices of a Some result ----

\* the offsets of the doc tags and of the enddoc tags of a text of TagFragments
DocTags(c) == Occurrences(c, Tag(Bytes_doc))

EnddocTags(c) == Occurrences(c, Tag(Bytes_enddoc))

\* C21: when extract_doc_blocks returns Some(list), the list is non-empty,
\* holds one slice per extracted doc block in source order, each slice runs
\* from the byte just after its doc tag's closing "%}" to the "{%" that opens
\* the first following enddoc tag, and the ranges satisfy
\* start <= end <= length of the text and do not overlap.
C21_SlicesOfSome ==
  (pc = "extracted" /\ blocks.kind = "Some")
    => /\ Len(blocks.ranges) >= 1
       /\ Len(blocks.slices) = Len(blocks.ranges)
       /\ \A k \in 1..Len(blocks.ranges) :
            LET s == blocks.ranges[k][1]
                e == blocks.ranges[k][2]
            IN /\ s - Len(Tag(Bytes_doc)) \in DocTags(content)
               /\ e \in EnddocTags(content)
               /\ \A j \in EnddocTags(content) : j >= s => e <= j
               /\ s <= e
               /\ e <= Len(content)
               /\ blocks.slices[k] = Slice(content, s, e)
       /\ \A k \in 1..(Len(blocks.ranges) - 1) :
            blocks.ranges[k][2] <= blocks.ranges[k + 1][1]

\* two blocks are extracted
C21_Witness ==
  /\ pc = "extracted"
  /\ blocks.kind = "Some"
  /\ Len(blocks.ranges) >= 2
  /\ blocks.ranges[1][2] < blocks.ranges[2][1]

\* ---- the early exit of the scan ----

\* extract_doc_blocks without the break of lines 123-125: the loop runs with
\* a number of possible blocks that found_blocks never reaches
extract_doc_blocks_to_end(c) ==
  IF possible_doc_blocks(c) = 0
  THEN [kind |-> "None", ranges |-> << >>, slices |-> << >>]
  ELSE extract_outcome(c, extract_loop(c, 0, << >>, 0, Len(c) + 1))

\* C22: the early exit is an optimization only: for every text the result
\* equals the result of the same scan run to the end of the text without
\* the early exit.
C22_EarlyExitIsOptimization ==
  pc = "extracted" => SameBlocks(blocks, extract_doc_blocks_to_end(content))

\* ---- doc tags that are malformed or not closed ----

MaxDocFragments == 4

\* a doc tag whose name is followed by a word before "%}"
MalformedDocTag == <<"{", "%", " ">> \o Bytes_doc \o <<" ", "x", " ", "%", "}">>

DocFragments ==
  { Tag(Bytes_doc), Tag(Bytes_enddoc), MalformedDocTag,
    <<"x">>, <<LeadByte, ContByte>>, <<"{">>, Bytes_enddoc }

InitDocs == InitWith(TextsOf(DocFragments, MaxDocFragments))

SpecDocs == InitDocs /\ [][Next]_vars

\* the offsets of the doc tags, well-formed or not, at or after the offset
DocOpeners(c, from) ==
  {i \in Occurrences(c, <<"{", "%", " ">> \o Bytes_doc \o <<" ">>) : i >= from}

\* the offsets of the enddoc tags at or after the offset
EnddocAfter(c, from) == {j \in EnddocTags(c) : j >= from}

\* the scan, started at the offset with found blocks already extracted,
\* reaches a doc tag that is malformed or that no enddoc tag follows
RECURSIVE ReachesBadDocTag(_, _, _)
ReachesBadDocTag(c, from, found) ==
  /\ found < possible_doc_blocks(c)
  /\ DocOpeners(c, from) # {}
  /\ LET i == Min(DocOpeners(c, from))
         s == i + Len(Tag(Bytes_doc))
     IN \/ StartsWith(c, i, MalformedDocTag)
        \/ EnddocAfter(c, s) = {}
        \/ ReachesBadDocTag(c, Min(EnddocAfter(c, s)) + 1, found + 1)

\* C23: if a doc tag name is not followed by only whitespace and an optional
\* dash before "%}", or no enddoc tag follows a doc tag, extract_doc_blocks
\* returns None for the whole text, also when doc blocks were extracted
\* earlier in the text.
C23_BadDocTagGivesNone ==
  (pc = "extracted" /\ ReachesBadDocTag(content, 0, 0))
    => blocks.kind = "None"

\* ---- inline comment tags ----

MaxInlineFragments == 4

\* "{% # ": the opening of an inline comment tag
InlineCommentOpening == <<"{", "%", " ", "#", " ">>

TagClose == <<"%", "}">>

InlineFragments ==
  { Tag(Bytes_doc), Tag(Bytes_enddoc), <<"x">>, <<" ">> \o TagClose }

\* an inline comment tag opened at the start of the text and what follows
InlineBodies ==
  { InlineCommentOpening \o t : t \in TextsOf(InlineFragments, MaxInlineFragments) }

InitInline == InitWith(InlineBodies)

SpecInline == InitInline /\ [][Next]_vars

\* the offset just after the first "%}" that follows the "#" of the inline
\* comment the text starts with (the end of the text when there is none)
InlineCommentEnd(c) ==
  IF Occurrences(c, TagClose) = {} THEN Len(c)
  ELSE Min(Occurrences(c, TagClose)) + Len(TagClose)

\* C24: on an inline comment tag extract_doc_blocks moves the cursor to just
\* after that tag's closing "%}" before it looks for further tags, so a
\* "{% doc %}" opener written between the "#" and the next "%}" does not
\* start a doc block: every extracted block starts after the comment.
C24_InlineCommentSkipped ==
  (pc = "extracted" /\ blocks.kind = "Some")
    => \A k \in 1..Len(blocks.ranges) :
         blocks.ranges[k][1] - Len(Tag(Bytes_doc)) >= InlineCommentEnd(content)

\* ---- the description of an @param ----

MaxTrailingFragments == 4

TrailingFragments == { <<" ">>, <<"-">>, <<"\n">>, <<"x">> }

\* "@param x" and what follows the name
TrailingBodies ==
  { Keyword_param \o <<" ", "x">> \o t :
      t \in TextsOf(TrailingFragments, MaxTrailingFragments) }

InitTrailing == InitWith(TrailingBodies)

SpecTrailing == InitTrailing /\ [][NextParse]_vars

\* C25: in every successful result a param's description is never Some of
\* the empty string: when the text after the name, with one leading "-"
\* removed, is empty after trimming, the description is None.
C25_NoEmptyParamDescription ==
  (pc = "parsed" /\ parsed.kind = "Ok")
    => \A i \in 1..Len(parsed.doc.param) :
         parsed.doc.param[i].description # Some(<< >>)

\* ---- annotation markers on the line of an @param ----

MaxMarkerFragments == 4

MarkerFragments ==
  { <<" ">>, <<"-">>, <<"\n">>, <<"y">>,
    Keyword_param \o <<" ">>, Keyword_example \o <<" ">> }

\* "@param x" and what follows
MarkerBodies ==
  { Keyword_param \o <<" ", "x">> \o t :
      t \in TextsOf(MarkerFragments, MaxMarkerFragments) }

InitMarkers == InitWith(MarkerBodies)

SpecMarkers == InitMarkers /\ [][NextParse]_vars

\* the first offset at or after from whose byte is in the set, the length
\* of the text when there is none
FirstOf(c, from, bytes) ==
  LET S == {i \in from..(Len(c) - 1) : c[i + 1] \in bytes} IN
    IF S = {} THEN Len(c) ELSE Min(S)

\* the offset after the bare name of the first @param of a body of
\* MarkerBodies
NameEnd(c) == FirstOf(c, Len(Keyword_param) + 1, {" ", "\n"})

\* the text without its leading whitespace and one leading "-", trimmed
WithoutDash(t) ==
  LET u == TrimStart(t) IN
    Trim(IF u # << >> /\ u[1] = "-" THEN Tail(u) ELSE u)

\* C26 as stated: a param's trailing description is the text after the name
\* up to the next annotation marker or the next newline, whichever comes
\* first, and a marker on the line of the description starts an annotation.
C26_DescriptionEndsAtMarker ==
  (pc = "parsed" /\ parsed.kind = "Ok" /\ parsed.doc.param # << >>
     /\ parsed.doc.param[1].description # None)
    => LET line_end == FirstOf(content, NameEnd(content), {"\n"})
           marker == NextMarker(content, NameEnd(content))
           end_pos == IF marker < line_end THEN marker ELSE line_end
       IN parsed.doc.param[1].description =
            Some(WithoutDash(Slice(content, NameEnd(content), end_pos)))

\* C26 amended: a param's trailing description, when it has one, is the
\* text after the name up to the next newline (or the end of the body),
\* without one leading "-" and trimmed; an annotation marker on that line is
\* part of the description and starts no annotation, so a body of one line
\* gives exactly one param and no example.
C26_DescriptionEndsAtNewline ==
  (pc = "parsed" /\ parsed.kind = "Ok" /\ parsed.doc.param # << >>)
    => /\ parsed.doc.param[1].description # None =>
            parsed.doc.param[1].description =
              Some(WithoutDash(Slice(content, NameEnd(content),
                                     FirstOf(content, NameEnd(content), {"\n"}))))
       /\ FirstOf(content, 0, {"\n"}) = Len(content) =>
            /\ Len(parsed.doc.param) = 1
            /\ parsed.doc.example = << >>

\* a marker stands on the line of the description of the param
C26_Witness ==
  /\ pc = "parsed"
  /\ parsed.kind = "Ok"
  /\ parsed.doc.param # << >>
  /\ parsed.doc.param[1].description # None
  /\ NextMarker(content, NameEnd(content))
       < FirstOf(content, NameEnd(content), {"\n"})
  /\ Occurrences(parsed.doc.param[1].description[1], <<"@">>) # {}

\* ---- whitespace in the name of an @param ----

MaxTabFragments == 4

TabFragments == { <<"x">>, <<"\t">>, <<" ">>, <<"\n">>, <<"[">>, <<"]">> }

\* "@param " and what follows the keyword
TabBodies ==
  { Keyword_param \o <<" ">> \o t :
      t \in TextsOf(TabFragments, MaxTabFragments) }

InitTabs == InitWith(TabBodies)

SpecTabs == InitTabs /\ [][NextParse]_vars

\* C27: the name of an @param that is not in brackets ends at the first
\* whitespace character (space, tab or newline): in every successful result
\* the name of a non-optional param is non-empty and contains no whitespace
\* character, and the name of any param contains no newline.
C27_NameWithoutWhitespace ==
  (pc = "parsed" /\ parsed.kind = "Ok")
    => \A i \in 1..Len(parsed.doc.param) :
         LET q == parsed.doc.param[i] IN
           /\ ~q.optional =>
                /\ q.name # << >>
                /\ \A k \in 1..Len(q.name) : ~IsWhitespace(q.name[k])
           /\ \A k \in 1..Len(q.name) : q.name[k] # "\n"

\* ---- panics of the scan ----

\* C28: extract_doc_blocks never panics: for every text, non-ASCII text
\* included, every slice index it computes is within the text and on a
\* character boundary, and the call returns None or Some.
C28_ExtractNeverPanics ==
  pc = "extracted" => blocks.kind \in {"None", "Some"}

\* ---- the loops, one iteration at a time ----

MaxStepFragments == 3

StepFragments ==
  { Tag(Bytes_doc), Tag(Bytes_enddoc), Tag(Bytes_raw), Tag(Bytes_endraw),
    InlineCommentOpening, Keyword_param \o <<" ">>, Keyword_example \o <<" ">>,
    <<"x">>, <<"\n">>, <<LeadByte, ContByte>>, <<"{">> }

InitSteps == InitWith(TextsOf(StepFragments, MaxStepFragments))

\* lines 79-91: the call of extract_doc_blocks up to the loop, or its return
\* when the text has no "enddoc"
BeginExtract ==
  /\ pc = "start"
  /\ IF possible_doc_blocks(content) = 0
     THEN /\ blocks' = [kind |-> "None", ranges |-> << >>, slices |-> << >>]
          /\ pc' = "extracted"
          /\ scan' = scan
     ELSE /\ scan' = [kind |-> "Extract", pos |-> 0, ranges |-> << >>, found |-> 0]
          /\ pc' = "scanning"
          /\ blocks' = blocks
  /\ UNCHANGED <<content, parsed, position>>

\* the scan after the iteration that has left the state it
ExtractStepTo(it) ==
  /\ scan' = [kind |-> "Extract", pos |-> it.pos, ranges |-> it.ranges,
              found |-> it.found]
  /\ IF it.kind = "Continue"
     THEN pc' = pc /\ blocks' = blocks
     ELSE pc' = "extracted" /\ blocks' = extract_outcome(content, it)

\* lines 93-126: one iteration of the loop of extract_doc_blocks
ExtractStep ==
  /\ pc = "scanning"
  /\ scan.pos < Len(content)
  /\ ExtractStepTo(extract_iteration(content, scan.pos, scan.ranges, scan.found,
                                     possible_doc_blocks(content)))
  /\ UNCHANGED <<content, parsed, position>>

\* lines 93 and 128: chars.next() is None, the loop is over
ExtractEnd ==
  /\ pc = "scanning"
  /\ scan.pos >= Len(content)
  /\ blocks' = extract_outcome(content, [kind |-> "Return", ranges |-> scan.ranges])
  /\ pc' = "extracted"
  /\ UNCHANGED <<content, parsed, position, scan>>

\* lines 133-139: the call of parse_doc_content up to the loop
BeginParse ==
  /\ pc = "start"
  /\ scan' = [kind |-> "Parse", pos |-> consume_whitespace(content, 0),
              doc |-> DefaultDocBlock]
  /\ pc' = "parsing"
  /\ UNCHANGED <<content, blocks, parsed, position>>

\* the parse after the iteration that has left the state st
ParseStepTo(st) ==
  /\ scan' = [kind |-> "Parse", pos |-> st.pos, doc |-> st.doc]
  /\ IF st.status = "run"
     THEN pc' = pc /\ parsed' = parsed
     ELSE pc' = "parsed" /\ parsed' = parse_outcome(st)

\* lines 141-326: one iteration of the loop of parse_doc_content
ParseStep ==
  /\ pc = "parsing"
  /\ scan.pos < Len(content)
  /\ ParseStepTo(parse_iteration(content, scan.pos, scan.doc))
  /\ UNCHANGED <<content, blocks, position>>

\* lines 141 and 328-332: chars.next() is None, the loop is over
ParseEnd ==
  /\ pc = "parsing"
  /\ scan.pos >= Len(content)
  /\ parsed' = parse_result(scan.doc)
  /\ pc' = "parsed"
  /\ UNCHANGED <<content, blocks, position, scan>>

NextSteps ==
  \/ BeginExtract
  \/ ExtractStep
  \/ ExtractEnd
  \/ BeginParse
  \/ ParseStep
  \/ ParseEnd

SpecSteps == InitSteps /\ [][NextSteps]_vars

\* the iteration the loop is about to run leaves the cursor after the place
\* it is at, and within the text
IterationAdvances ==
  /\ (pc = "scanning" /\ scan.pos < Len(content))
       => LET it == extract_iteration(content, scan.pos, scan.ranges, scan.found,
                                      possible_doc_blocks(content))
          IN it.pos > scan.pos /\ it.pos <= Len(content)
  /\ (pc = "parsing" /\ scan.pos < Len(content))
       => LET st == parse_iteration(content, scan.pos, scan.doc)
          IN st.pos > scan.pos /\ st.pos <= Len(content)

\* from every cursor of the text, chars.next() takes a character and the
\* helper loops leave the cursor at or after the place they started at
HelpersAdvance ==
  pc = "start"
    => \A p \in 0..Len(content) :
         /\ p < Len(content) => Advance(content, p) > p
         /\ consume_until(content, p, TagOpener).pos >= p
         /\ consume_until_either(content, p, AnnotationMarkers).pos >= p
         /\ skip_to_tag(content, p, Bytes_enddoc, FALSE).pos >= p
         /\ skip_to_tag(content, p, Bytes_endraw, TRUE).pos >= p

\* C29: extract_doc_blocks and parse_doc_content terminate on every finite
\* input: every iteration of a main loop moves the cursor forward by at least
\* one character, the helper loops never move it back, and no call takes
\* infinitely many steps.
C29_Terminates == [](IterationAdvances /\ HelpersAdvance) /\ <>[][FALSE]_vars

\* a call has ended after the loop has run over more than one tag
C29_Witness ==
  /\ pc = "extracted"
  /\ scan.kind = "Extract"
  /\ scan.found >= 1
  /\ blocks.kind = "Some"

====
